---- MODULE Spec2Model ----
(***************************************************************************)
(* A model of the field-conversion layer (serializers/fields.py) and the   *)
(* XML renderer (serializers/renderers.py) of django-serializers.          *)
(*                                                                         *)
(* Python values are tagged records: the tag k names the runtime type and  *)
(* the remaining fields hold the payload.                                  *)
(***************************************************************************)
EXTENDS Integers, Sequences, FiniteSets, TLC

VARIABLES
    fields,                 \* the constructed Field instances, in construction order
    Field_creation_counter, \* the class attribute Field.creation_counter
    call,                   \* the last completed call on a field and what it returned
    pc,                     \* per thread: the line a concurrent _convert_field call is at
    loc,                    \* per thread: the call's arguments, locals and return value
    arg,                    \* the argument handed to Field.convert
    ret,                    \* what Field.convert returned
    data,                   \* the value handed to XMLRenderer.render, with the dict iteration order
    stream                  \* what XMLRenderer.render returned (stream.getvalue())

vars == <<fields, Field_creation_counter, call, pc, loc, arg, ret, data, stream>>

----------------------------------------------------------------------------
(* Python values *)

NoneV == [k |-> "none"]
IntV(n) == [k |-> "int", i |-> n]
StrV(s) == [k |-> "str", t |-> s]
ListV(s) == [k |-> "list", s |-> s]
TupleV(s) == [k |-> "tuple", s |-> s]
DictV(m) == [k |-> "dict", m |-> m]
\* a model instance; a plain object with no __iter__
ModelV(id) == [k |-> "model", id |-> id]
\* a related manager: cls is its __class__.__name__, all what .all() yields
ManagerV(cls, all) == [k |-> "manager", cls |-> cls, all |-> all]
\* the _meta (Options) object of a model
MetaV(label) == [k |-> "meta", label |-> label]
\* the outcome of a call that raised: the exception class and the line that raised it
Raise(exc, line) == [k |-> "raise", exc |-> exc, line |-> line]
\* an attribute that was never assigned, a call that has not returned
Unset == [k |-> "unset"]

Range(s) == {s[i] : i \in DOMAIN s}

----------------------------------------------------------------------------
(* Bounded input values: every value built from the leaves with at most    *)
(* MaxNodes nodes.                                                         *)

MaxNodes == 3

Keys == {"a", "b"}
\* the key sets a dict can have, each listed in ascending order
KeySeqs == {<<>>, <<"a">>, <<"b">>, <<"a", "b">>}
Leaves == {NoneV, IntV(1), StrV("x<y"), ModelV("blog1")}

IndexOf(s, e) == CHOOSE i \in DOMAIN s : s[i] = e

\* the sequences of `total` nodes in all, over trees[j], the trees of j nodes
RECURSIVE SeqsOfSize(_, _)
SeqsOfSize(trees, total) ==
    IF total = 0 THEN {<<>>}
    ELSE UNION {LET rest == SeqsOfSize(trees, total - j)
                IN  {<<t>> \o s : t \in trees[j], s \in rest} : j \in 1..total}

MapsOver(seqs) ==
    UNION {{[key \in Range(ks) |-> s[IndexOf(ks, key)]] :
                s \in {q \in seqs : Len(q) = Len(ks)}} : ks \in KeySeqs}

\* the trees of exactly n nodes, given those of fewer
TreesOfSize(trees, n) ==
    LET seqs == SeqsOfSize(trees, n - 1)
    IN  (IF n = 1 THEN Leaves ELSE {})
            \cup {ListV(s) : s \in seqs}
            \cup {TupleV(s) : s \in seqs}
            \cup {DictV(m) : m \in MapsOver(seqs)}

\* <<the trees of 1 node, ..., the trees of n nodes>>
RECURSIVE TreesUpTo(_)
TreesUpTo(n) ==
    IF n = 0 THEN <<>>
    ELSE LET trees == TreesUpTo(n - 1) IN Append(trees, TreesOfSize(trees, n))

Values == UNION Range(TreesUpTo(MaxNodes))

----------------------------------------------------------------------------
(* django.utils.encoding, as fields.py and renderers.py use it *)

\* None, numbers, dates and Decimals; strings are not protected
is_protected_type(obj) == obj.k \in {"none", "int"}

\* unicode(n) of a small integer
Digits(n) ==
    IF n = 0 THEN "0" ELSE IF n = 1 THEN "1" ELSE IF n = 2 THEN "2"
    ELSE IF n = 3 THEN "3" ELSE IF n = 7 THEN "7" ELSE "n"

\* unicode(obj): the string form of a value
smart_unicode(obj) ==
    CASE obj.k = "str" -> obj
      [] obj.k = "none" -> StrV("None")
      [] obj.k = "int" -> StrV(Digits(obj.i))
      [] obj.k = "model" -> StrV("<" \o obj.id \o ">")
      [] obj.k = "meta" -> StrV(obj.label)
      [] OTHER -> StrV("<object>")

\* hasattr(obj, '__iter__'): lists and tuples have it, Python 2 strings do not
has_iter(obj) == obj.k \in {"list", "tuple"}

----------------------------------------------------------------------------
(* Field.convert *)

RECURSIVE Field_convert(_)

\* Field.convert with the list branch returning list(obj): the elements unconverted
Field_convert_shallow(obj) ==
    IF is_protected_type(obj) THEN obj
    ELSE IF obj.k = "dict"
        THEN DictV([key \in DOMAIN obj.m |-> Field_convert(obj.m[key])])
    ELSE IF has_iter(obj)
        THEN ListV(obj.s)
    ELSE smart_unicode(obj)

Field_convert(obj) ==
    IF is_protected_type(obj) THEN obj
    ELSE IF obj.k = "dict"
        THEN DictV([key \in DOMAIN obj.m |-> Field_convert(obj.m[key])])
    ELSE IF has_iter(obj)
        THEN ListV([i \in 1..Len(obj.s) |-> Field_convert(obj.s[i])])
    ELSE smart_unicode(obj)

----------------------------------------------------------------------------
(* The Model Provider: the Django model layer the fields call into.        *)
(* One model, Blog, with two instances; its relations reach instances of   *)
(* other models, which are leaves here.                                    *)

\* a callable handed to Field.__init__ as convert
FuncV(name) == [k |-> "func", name |-> name]
\* the parent serializer handed to _convert_field
ParentV(id) == [k |-> "parent", id |-> id]
\* what get_field_by_name(...)[0] returns: a model field, or a RelatedObject
\* for the reverse side of a relation (which has no attname and no rel)
FieldD(cls, name, attname, rel, to) ==
    [k |-> "field", cls |-> cls, name |-> name, attname |-> attname, rel |-> rel, to |-> to]

IsRaise(v) == v.k = "raise"

\* bool(v) for the values a source or a root can be
Truthy(v) == v # NoneV /\ v # StrV("")

\* parent.root: None on the top-level serializer
parent_root(parent) == IF parent = ParentV("nested") THEN ParentV("top") ELSE NoneV

\* obj._meta
meta(obj) == MetaV("app.blog")

\* the names get_field_by_name knows on Blog: the model's own fields by name,
\* the reverse relations by related_query_name
BlogFields ==
    [title |-> FieldD("CharField", "title", "title", "NoneType", NoneV),
     hits |-> FieldD("IntegerField", "hits", "hits", "NoneType", NoneV),
     author |-> FieldD("ForeignKey", "author", "author_id", "ManyToOneRel", MetaV("app.author")),
     tags |-> FieldD("ManyToManyField", "tags", "tags", "ManyToManyRel", MetaV("app.tag")),
     comments |-> FieldD("RelatedObject", "comments", "", "", NoneV),
     readers |-> FieldD("RelatedObject", "readers", "", "", NoneV),
     profile |-> FieldD("RelatedObject", "profile", "", "", NoneV)]

\* opts.get_field_by_name(name)[0]; raises FieldDoesNotExist for any other name
get_field_by_name(opts, name, line) ==
    IF name \in DOMAIN BlogFields THEN BlogFields[name]
    ELSE Raise("FieldDoesNotExist", line)

\* what a relation of the object resolves to, in the relation's order
Members(obj) ==
    IF obj = ModelV("blog1") THEN <<ModelV("m1"), ModelV("m2"), ModelV("m3")>>
    ELSE <<ModelV("m3"), ModelV("m1")>>

\* item.pk
pk(obj, line) ==
    CASE obj = ModelV("m1") -> IntV(1)
      [] obj = ModelV("m2") -> IntV(2)
      [] obj = ModelV("m3") -> IntV(3)
      [] obj = ModelV("author7") -> IntV(7)
      [] obj = ModelV("profile5") -> IntV(5)
      [] obj.k = "model" -> IntV(0)
      [] OTHER -> Raise("AttributeError", line)

\* hasattr(obj, 'natural_key') and obj.natural_key()
has_natural_key(obj) == obj = ModelV("author7")
natural_key(obj) == TupleV(<<StrV("acme"), StrV("widget")>>)

\* getattr(obj, name) on a Blog instance: the instance attributes and the
\* relation descriptors; AttributeError for any other name
getattr(obj, name, line) ==
    CASE name = "title" -> StrV(IF obj = ModelV("blog1") THEN "t1" ELSE "t2")
      [] name = "hits" -> IntV(IF obj = ModelV("blog1") THEN 1 ELSE 2)
      [] name = "author_id" -> IntV(7)
      [] name = "author" -> ModelV("author7")
      [] name = "tags" -> ManagerV("ManyRelatedManager", Members(obj))
      [] name = "entry_set" -> ManagerV("RelatedManager", Members(obj))
      [] name = "comments" -> ManagerV("RelatedManager", Members(obj))
      [] name = "readers" -> ManagerV("ManyRelatedManager", Members(obj))
      [] name = "profile" -> ModelV("profile5")
      [] OTHER -> Raise("AttributeError", line)

\* Model.serializable_value(field_name): getattr(self, field.attname) when
\* get_field_by_name knows the name (a RelatedObject has no attname, which is
\* an AttributeError), else getattr(self, field_name)
serializable_value(obj, name, line) ==
    LET field == get_field_by_name(meta(obj), name, line)
    IN  IF IsRaise(field) THEN getattr(obj, name, line)
        ELSE IF field.cls = "RelatedObject" THEN Raise("AttributeError", line)
        ELSE getattr(obj, field.attname, line)

\* field._get_val_from_obj(obj)
get_val_from_obj(field, obj, line) ==
    IF field.cls = "RelatedObject" THEN Raise("AttributeError", line)
    ELSE getattr(obj, field.attname, line)

\* field.value_to_string(obj)
value_to_string(field, obj, line) == smart_unicode(get_val_from_obj(field, obj, line))

----------------------------------------------------------------------------
(* The Field classes: fields.py *)

FieldClasses ==
    {"Field", "ModelField", "RelatedField", "PrimaryKeyRelatedField",
     "NaturalKeyRelatedField", "ModelNameField"}

\* Field.__init__: the instance attributes it assigns; the attributes that
\* only a conversion call assigns do not exist yet
Field_init(cls, source, label, convert, counter) ==
    [cls |-> cls, source |-> source, label |-> label,
     convert |-> IF convert # NoneV THEN convert ELSE Unset,
     creation_counter |-> counter,
     obj |-> Unset, parent |-> Unset, root |-> Unset, field_name |-> Unset,
     field |-> Unset, test |-> Unset]

\* what a method hands back: the instance as the method left it, the value
\* returned (or the exception raised), and the names looked up on the object
Ret(self, value, looked) == [self |-> self, ret |-> value, looked |-> looked]

\* calling a convert function handed to the constructor: it projects the
\* value, here into a URL
apply(func, v) == [k |-> "url", of |-> v]

PrimaryKeyRelatedField_convert(v) == v

NaturalKeyRelatedField_convert(obj) ==
    IF has_natural_key(obj) THEN natural_key(obj) ELSE obj

\* self.convert(v): the instance attribute set by the constructor if there is
\* one, else the method of the instance's class
Self_convert(self, v) ==
    IF self.convert # Unset THEN apply(self.convert, v)
    ELSE CASE self.cls = "PrimaryKeyRelatedField" -> PrimaryKeyRelatedField_convert(v)
           [] self.cls = "NaturalKeyRelatedField" -> NaturalKeyRelatedField_convert(v)
           [] OTHER -> Field_convert(v)

\* obj.__class__.__name__
class_name(obj) == IF obj.k = "manager" THEN obj.cls ELSE obj.k

Field_convert_field(self, obj, field_name) ==
    LET value == getattr(obj, field_name.t, 35)
    IN  Ret(self, IF IsRaise(value) THEN value ELSE Self_convert(self, value),
            <<field_name.t>>)

ModelField_convert_field(self, obj, field_name) ==
    LET field == get_field_by_name(meta(self.obj), self.field_name.t, 56)
        value == get_val_from_obj(field, obj, 57)
    IN  IF IsRaise(field) THEN Ret(self, field, <<self.field_name.t>>)
        ELSE IF IsRaise(value) THEN Ret(self, value, <<self.field_name.t>>)
        ELSE Ret([self EXCEPT !.field = field],
                 IF is_protected_type(value) THEN value
                 ELSE value_to_string(field, obj, 65),
                 <<self.field_name.t>>)

RelatedField_convert_field(self, obj, field_name) ==
    LET rel == getattr(obj, field_name.t, 82)
    IN  Ret(self,
            IF IsRaise(rel) THEN rel
            ELSE IF class_name(rel) \in {"RelatedManager", "ManyRelatedManager"}
                THEN ListV([i \in 1..Len(rel.all) |-> Self_convert(self, rel.all[i])])
            ELSE Self_convert(self, rel),
            <<field_name.t>>)

\* the except branch of PrimaryKeyRelatedField.convert_field, lines 123-129;
\* `caught` is the AttributeError being handled, which the bare raise re-raises
PrimaryKeyRelatedField_fallback(self, obj, field_name, caught) ==
    LET field == get_field_by_name(meta(obj), field_name.t, 123)
        rel == getattr(obj, field_name.t, 124)
    IN  IF IsRaise(field) THEN field
        ELSE IF IsRaise(rel) THEN rel
        ELSE IF class_name(rel) = "RelatedManager"
            THEN ListV([i \in 1..Len(rel.all) |-> Self_convert(self, pk(rel.all[i], 126))])
        ELSE IF field.cls = "RelatedObject"
            THEN (IF IsRaise(pk(rel, 128)) THEN pk(rel, 128)
                  ELSE Self_convert(self, pk(rel, 128)))
        ELSE caught

PrimaryKeyRelatedField_convert_field(self, obj, field_name) ==
    LET self1 == [self EXCEPT !.test = field_name]
        value == serializable_value(obj, field_name.t, 121)
    IN  Ret(self1,
            IF IsRaise(value)
                THEN (IF value.exc = "AttributeError"
                      THEN PrimaryKeyRelatedField_fallback(self1, obj, field_name, value)
                      ELSE value)
            ELSE IF class_name(value) = "ManyRelatedManager"
                THEN ListV([i \in 1..Len(value.all) |->
                                Self_convert(self1, pk(value.all[i], 131))])
            ELSE value,
            <<field_name.t>>)

ModelNameField_convert_field(self, obj, field_name) ==
    Ret(self, smart_unicode(meta(obj)), <<>>)

\* self.convert_field(obj, field_name): the method of the instance's class
Self_convert_field(self, obj, field_name) ==
    CASE self.cls = "Field" -> Field_convert_field(self, obj, field_name)
      [] self.cls = "ModelField" -> ModelField_convert_field(self, obj, field_name)
      [] self.cls = "RelatedField" -> RelatedField_convert_field(self, obj, field_name)
      [] self.cls = "NaturalKeyRelatedField" ->
            RelatedField_convert_field(self, obj, field_name)
      [] self.cls = "PrimaryKeyRelatedField" ->
            PrimaryKeyRelatedField_convert_field(self, obj, field_name)
      [] self.cls = "ModelNameField" -> ModelNameField_convert_field(self, obj, field_name)

\* _convert_field resolving the name without looking at self.source
Field_convert_field_entry_declared_name(self, obj, field_name, parent) ==
    LET self1 == [self EXCEPT !.obj = obj, !.parent = parent,
                              !.root = IF Truthy(parent_root(parent))
                                       THEN parent_root(parent) ELSE parent]
        self2 == [self1 EXCEPT !.field_name = field_name]
    IN  IF self.source = StrV("*") THEN Ret(self1, Self_convert(self1, obj), <<>>)
        ELSE Self_convert_field(self2, obj, self2.field_name)

\* Field._convert_field, run from entry to return
Field_convert_field_entry(self, obj, field_name, parent) ==
    LET self1 == [self EXCEPT !.obj = obj, !.parent = parent,
                              !.root = IF Truthy(parent_root(parent))
                                       THEN parent_root(parent) ELSE parent]
        self2 == [self1 EXCEPT !.field_name =
                                   IF Truthy(self.source) THEN self.source ELSE field_name]
    IN  IF self.source = StrV("*") THEN Ret(self1, Self_convert(self1, obj), <<>>)
        ELSE Self_convert_field(self2, obj, self2.field_name)

Field_attributes(self) == DictV(<<>>)

ModelField_attributes(self) ==
    IF self.field = Unset THEN Raise("AttributeError", 69)
    ELSE DictV([key \in {"type"} |-> StrV(self.field.cls)])

RelatedField_attributes(self) ==
    IF self.obj = Unset \/ self.field_name = Unset THEN Raise("AttributeError", 88)
    ELSE LET field == get_field_by_name(meta(self.obj), self.field_name.t, 88)
         IN  IF IsRaise(field) THEN field
             ELSE IF field.cls = "RelatedObject" THEN Raise("AttributeError", 90)
             ELSE IF field.rel = "NoneType" THEN Raise("AttributeError", 91)
             ELSE DictV([key \in {"rel", "to"} |->
                            IF key = "rel" THEN StrV(field.rel) ELSE smart_unicode(field.to)])

\* self.attributes(): the method of the instance's class
Self_attributes(self) ==
    CASE self.cls = "ModelField" -> ModelField_attributes(self)
      [] self.cls \in {"RelatedField", "PrimaryKeyRelatedField", "NaturalKeyRelatedField"} ->
            RelatedField_attributes(self)
      [] OTHER -> Field_attributes(self)

----------------------------------------------------------------------------
(* Calls on field instances, one at a time *)

\* self.creation_counter += 1: the instance's copy incremented, not the class's
NextCounter_instance_only(c) == c

\* Field.creation_counter += 1
NextCounter(c) == c + 1

\* Field(source, label, convert), or the same call on a subclass
Construct(cls, source, label, convert) ==
    /\ fields' = Append(fields, Field_init(cls, source, label, convert,
                                           Field_creation_counter))
    /\ Field_creation_counter' = NextCounter(Field_creation_counter)
    /\ UNCHANGED <<call, pc, loc, arg, ret, data, stream>>

\* fields[i]._convert_field(obj, field_name, parent), as the parent
\* serializer calls it
ConvertEntry(i, obj, field_name, parent) ==
    LET r == Field_convert_field_entry(fields[i], obj, StrV(field_name), parent)
    IN  /\ fields' = [fields EXCEPT ![i] = r.self]
        /\ call' = [op |-> "_convert_field", i |-> i, obj |-> obj,
                    field_name |-> StrV(field_name), parent |-> parent,
                    before |-> fields[i], ret |-> r.ret, looked |-> r.looked]
        /\ UNCHANGED <<Field_creation_counter, pc, loc, arg, ret, data, stream>>

\* fields[i].attributes()
Attributes(i) ==
    /\ call' = [op |-> "attributes", i |-> i, obj |-> Unset, field_name |-> Unset,
                parent |-> Unset, before |-> fields[i],
                ret |-> Self_attributes(fields[i]), looked |-> <<>>]
    /\ UNCHANGED <<fields, Field_creation_counter, pc, loc, arg, ret, data, stream>>

Idle ==
    /\ pc = <<>>
    /\ loc = <<>>
    /\ arg = Unset
    /\ ret = Unset
    /\ data = Unset
    /\ stream = Unset

\* the arguments the calls are made with
Sources == {NoneV, StrV(""), StrV("*"), StrV("title")}
ConvertArgs == {NoneV, FuncV("to_url")}
Objs == {ModelV("blog1"), ModelV("blog2")}
Parents == {ParentV("top"), ParentV("nested")}
DeclaredNames == {"hits", "author"}
RelationClasses == {"RelatedField", "PrimaryKeyRelatedField", "NaturalKeyRelatedField"}
RelationNames == {"author", "tags", "entry_set", "comments", "readers", "profile", "nosuch"}

(* One field of any class, constructed with any source and convert, then  *)
(* used for any sequence of conversion calls.                              *)
Init ==
    /\ \E cls \in FieldClasses, source \in Sources, convert \in ConvertArgs :
            fields = <<Field_init(cls, source, NoneV, convert, 0)>>
    /\ Field_creation_counter = NextCounter(0)
    /\ call = Unset
    /\ Idle

Next ==
    \/ \E obj \in Objs, field_name \in DeclaredNames, parent \in Parents :
            ConvertEntry(1, obj, field_name, parent)
    \/ Attributes(1)

Spec == Init /\ [][Next]_vars

(* Fields constructed one after another, with conversion calls in between *)
MaxFields == 3

InitOrder ==
    /\ fields = <<>>
    /\ Field_creation_counter = 0
    /\ call = Unset
    /\ Idle

NextOrder ==
    \/ /\ Len(fields) < MaxFields
       /\ \E cls \in FieldClasses : Construct(cls, NoneV, NoneV, NoneV)
    \/ \E i \in 1..Len(fields) : ConvertEntry(i, ModelV("blog1"), "hits", ParentV("top"))
    \/ \E i \in 1..Len(fields) : Attributes(i)

SpecOrder == InitOrder /\ [][NextOrder]_vars

(* One relation field, used on the relations of the Blog instances *)
InitRel ==
    /\ \E cls \in RelationClasses, convert \in ConvertArgs :
            fields = <<Field_init(cls, NoneV, NoneV, convert, 0)>>
    /\ Field_creation_counter = NextCounter(0)
    /\ call = Unset
    /\ Idle

NextRel ==
    \/ \E obj \in Objs, field_name \in RelationNames :
            ConvertEntry(1, obj, field_name, ParentV("top"))
    \/ Attributes(1)

SpecRel == InitRel /\ [][NextRel]_vars

----------------------------------------------------------------------------
(* Claims about the calls on field instances *)

\* the instance attributes of a field
Attrs ==
    {"cls", "source", "label", "convert", "creation_counter", "obj", "parent", "root",
     "field_name", "field", "test"}

\* the name a call resolves: the source when one is set, else the declared name
EffectiveName == IF Truthy(call.before.source) THEN call.before.source ELSE call.field_name

\* C3: _convert_field with source "*" looks up no attribute of obj and returns
\* convert(obj); with any other source it returns convert_field(obj, name)
\* for name the source when one is set and the declared name when not; either
\* way the root it binds is parent.root when the parent has one, else parent
C3_EntryDelegates ==
    (call # Unset /\ call.op = "_convert_field") =>
        LET self == fields[call.i]
        IN  /\ call.before.source = StrV("*") =>
                    /\ call.looked = <<>>
                    /\ call.ret = Self_convert(self, call.obj)
            /\ call.before.source # StrV("*") =>
                    /\ self.field_name = EffectiveName
                    /\ call.ret = Self_convert_field(self, call.obj, EffectiveName).ret
                    /\ call.looked = Self_convert_field(self, call.obj, EffectiveName).looked
            /\ self.root = IF parent_root(call.parent) # NoneV
                           THEN parent_root(call.parent) ELSE call.parent

\* a plain Field with source "title", declared as "hits", was converted under
\* a nested serializer: it returned the title and bound the top serializer
C3_Witness ==
    /\ call # Unset
    /\ call.op = "_convert_field"
    /\ fields[1].cls = "Field"
    /\ fields[1].source = StrV("title")
    /\ call.field_name = StrV("hits")
    /\ call.obj = ModelV("blog2")
    /\ call.parent = ParentV("nested")
    /\ call.ret = StrV("t2")
    /\ fields[1].root = ParentV("top")

\* C8: a _convert_field call leaves every attribute of the field other than
\* the cached `field` and `obj` with the value it had before the call
C8_OnlyFieldAndObjChange ==
    (call # Unset /\ call.op = "_convert_field") =>
        \A a \in Attrs \ {"field", "obj"} : fields[call.i][a] = call.before[a]

\* the counters increase strictly in construction order
CountersOrdered ==
    \A i, j \in 1..Len(fields) :
        i < j => fields[i].creation_counter < fields[j].creation_counter

\* C7: every field's creation_counter is strictly greater than that of every
\* field constructed before it (so all are distinct and sorting by counter
\* gives construction order), and a conversion or attributes call changes
\* neither any field's counter nor Field.creation_counter
C7_CreationOrder ==
    /\ []CountersOrdered
    /\ [][call' # call =>
            /\ Field_creation_counter' = Field_creation_counter
            /\ Len(fields') = Len(fields)
            /\ \A i \in 1..Len(fields) :
                    fields'[i].creation_counter = fields[i].creation_counter]_vars

\* three fields of different classes were constructed, a conversion ran on
\* the first before the last was constructed, and the counters are 0, 1, 2
C7_Witness ==
    /\ Len(fields) = 3
    /\ fields[1].cls = "ModelField"
    /\ fields[2].cls = "Field"
    /\ fields[3].cls = "PrimaryKeyRelatedField"
    /\ fields[1].obj = ModelV("blog1")
    /\ fields[3].obj = Unset
    /\ <<fields[1].creation_counter, fields[2].creation_counter,
         fields[3].creation_counter>> = <<0, 1, 2>>

----------------------------------------------------------------------------
(* Claims about the relation fields *)

\* the call just made, when it is a conversion call on a field of class cls
ConvertedBy(cls) ==
    /\ call # Unset
    /\ call.op = "_convert_field"
    /\ fields[call.i].cls = cls

\* the relation the call named, as an attribute of the object
NamedRelation == getattr(call.obj, call.field_name.t, 0)

\* C4: PrimaryKeyRelatedField.convert_field on a multi-valued relation
\* returns the list of the members' primary keys, in the members' order
C4_MultiValuedGivesKeys ==
    (/\ ConvertedBy("PrimaryKeyRelatedField")
     /\ fields[call.i].convert = Unset
     /\ NamedRelation.k = "manager") =>
        call.ret = ListV([i \in 1..Len(NamedRelation.all) |-> pk(NamedRelation.all[i], 0)])

\* C5: when neither path of PrimaryKeyRelatedField.convert_field knows the
\* field name, the failure raised is the one the first path raised
C5_OriginalFailurePropagates ==
    (/\ ConvertedBy("PrimaryKeyRelatedField")
     /\ IsRaise(serializable_value(call.obj, call.field_name.t, 121))
     /\ IsRaise(get_field_by_name(meta(call.obj), call.field_name.t, 123))
     /\ IsRaise(NamedRelation)) =>
        call.ret = serializable_value(call.obj, call.field_name.t, 121)

\* C6: NaturalKeyRelatedField on a relation whose related objects have no
\* natural key returns their string forms: the string for a single object,
\* the list of strings for a multi-valued relation, never an object itself
C6_NoNaturalKeyGivesString ==
    (/\ ConvertedBy("NaturalKeyRelatedField")
     /\ fields[call.i].convert = Unset
     /\ ~IsRaise(NamedRelation)) =>
        /\ (NamedRelation.k = "model" /\ ~has_natural_key(NamedRelation)) =>
                call.ret = smart_unicode(NamedRelation)
        /\ NamedRelation.k = "manager" =>
                call.ret = ListV([i \in 1..Len(NamedRelation.all) |->
                                    smart_unicode(NamedRelation.all[i])])

\* C10: whatever primary keys PrimaryKeyRelatedField.convert_field returns
\* went through self.convert: convert(pk) for a single-valued relation, the
\* list of convert(pk) over the members for a multi-valued one
C10_KeysGoThroughConvert ==
    (/\ ConvertedBy("PrimaryKeyRelatedField")
     /\ ~IsRaise(NamedRelation)
     /\ ~IsRaise(call.ret)
     /\ call.ret.k # "manager") =>
        /\ NamedRelation.k = "model" =>
                call.ret = Self_convert(fields[call.i], pk(NamedRelation, 0))
        /\ NamedRelation.k = "manager" =>
                call.ret = ListV([i \in 1..Len(NamedRelation.all) |->
                                    Self_convert(fields[call.i], pk(NamedRelation.all[i], 0))])

----------------------------------------------------------------------------
(* Two threads calling _convert_field, and then attributes(), on the same  *)
(* field instance. Each step is one line of the method: it reads or writes *)
(* the instance once, and the threads' steps interleave freely.            *)

Threads == {1, 2}

self_ == fields[1]

Goto(t, line) == pc' = [pc EXCEPT ![t] = line]

NoCall == UNCHANGED <<Field_creation_counter, call, arg, ret, data, stream>>

\* line 20: self.obj = obj
L20(t) ==
    /\ pc[t] = "L20"
    /\ fields' = [fields EXCEPT ![1].obj = loc[t].obj]
    /\ Goto(t, "L21")
    /\ UNCHANGED loc /\ NoCall

\* line 21: self.parent = parent
L21(t) ==
    /\ pc[t] = "L21"
    /\ fields' = [fields EXCEPT ![1].parent = loc[t].parent]
    /\ Goto(t, "L22")
    /\ UNCHANGED loc /\ NoCall

\* line 22: self.root = parent.root or parent
L22(t) ==
    /\ pc[t] = "L22"
    /\ fields' = [fields EXCEPT ![1].root =
                      IF Truthy(parent_root(loc[t].parent))
                      THEN parent_root(loc[t].parent) ELSE loc[t].parent]
    /\ Goto(t, "L24")
    /\ UNCHANGED loc /\ NoCall

\* lines 24-25: if self.source == '*': return self.convert(obj)
L24(t) ==
    /\ pc[t] = "L24"
    /\ IF self_.source = StrV("*")
           THEN /\ loc' = [loc EXCEPT ![t].ret = Self_convert(self_, loc[t].obj)]
                /\ Goto(t, "returned")
           ELSE /\ Goto(t, "L27")
                /\ UNCHANGED loc
    /\ UNCHANGED fields /\ NoCall

\* line 27: self.field_name = self.source or field_name
L27(t) ==
    /\ pc[t] = "L27"
    /\ fields' = [fields EXCEPT ![1].field_name =
                      IF Truthy(self_.source) THEN self_.source ELSE loc[t].field_name]
    /\ Goto(t, "L28")
    /\ UNCHANGED loc /\ NoCall

\* line 28: the argument self.field_name is read and convert_field is entered
L28(t) ==
    /\ pc[t] = "L28"
    /\ loc' = [loc EXCEPT ![t].fn = self_.field_name]
    /\ Goto(t, IF self_.cls = "ModelField" THEN "L56a" ELSE "body")
    /\ UNCHANGED fields /\ NoCall

\* convert_field of every class but ModelField: it works on its arguments
\* (PrimaryKeyRelatedField also assigns self.test)
Body(t) ==
    /\ pc[t] = "body"
    /\ LET r == Self_convert_field(self_, loc[t].obj, loc[t].fn)
       IN  /\ fields' = [fields EXCEPT ![1] = r.self]
           /\ loc' = [loc EXCEPT ![t].ret = r.ret]
    /\ Goto(t, "returned")
    /\ NoCall

\* line 56, first half: self.obj is read
L56a(t) ==
    /\ pc[t] = "L56a"
    /\ loc' = [loc EXCEPT ![t].o = self_.obj]
    /\ Goto(t, "L56b")
    /\ UNCHANGED fields /\ NoCall

\* line 56, second half, and line 57: self.field_name is read, the field is
\* looked up on the _meta of the object read before, and its value is taken
\* from the argument obj
L56b(t) ==
    /\ pc[t] = "L56b"
    /\ LET field == get_field_by_name(meta(loc[t].o), self_.field_name.t, 56)
           value == get_val_from_obj(field, loc[t].obj, 57)
       IN  IF IsRaise(field)
               THEN loc' = [loc EXCEPT ![t].ret = field] /\ Goto(t, "returned")
           ELSE IF IsRaise(value)
               THEN loc' = [loc EXCEPT ![t].ret = value] /\ Goto(t, "returned")
           ELSE loc' = [loc EXCEPT ![t].field = field] /\ Goto(t, "L61")
    /\ UNCHANGED fields /\ NoCall

\* lines 61-65: self.field = field, and the value is returned
L61(t) ==
    /\ pc[t] = "L61"
    /\ fields' = [fields EXCEPT ![1].field = loc[t].field]
    /\ LET value == get_val_from_obj(loc[t].field, loc[t].obj, 57)
       IN  loc' = [loc EXCEPT ![t].ret =
                      IF is_protected_type(value) THEN value
                      ELSE value_to_string(loc[t].field, loc[t].obj, 65)]
    /\ Goto(t, "returned")
    /\ NoCall

\* the caller, having got the value, asks the field for its attributes();
\* a call that raised is not followed by attributes()
Returned(t) ==
    /\ pc[t] = "returned"
    /\ loc' = [loc EXCEPT ![t].meta =
                   IF IsRaise(loc[t].ret) THEN Unset ELSE Self_attributes(self_)]
    /\ Goto(t, "done")
    /\ UNCHANGED fields /\ NoCall

\* the arguments of a thread's call, and its locals
Frame(obj, field_name, parent) ==
    [obj |-> obj, field_name |-> StrV(field_name), parent |-> parent,
     fn |-> Unset, o |-> Unset, field |-> Unset, ret |-> Unset, meta |-> Unset]

InitConc ==
    /\ \E cls \in FieldClasses, source \in {NoneV, StrV("*")} :
            fields = <<Field_init(cls, source, NoneV, NoneV, 0)>>
    /\ Field_creation_counter = NextCounter(0)
    /\ call = Unset
    /\ pc = [t \in Threads |-> "L20"]
    /\ \E field_name \in {"title", "author"} :
            loc = [t \in Threads |->
                    IF t = 1 THEN Frame(ModelV("blog1"), "hits", ParentV("top"))
                    ELSE Frame(ModelV("blog2"), field_name, ParentV("nested"))]
    /\ arg = Unset
    /\ ret = Unset
    /\ data = Unset
    /\ stream = Unset

NextConc ==
    \E t \in Threads :
        \/ L20(t) \/ L21(t) \/ L22(t) \/ L24(t) \/ L27(t) \/ L28(t)
        \/ Body(t) \/ L56a(t) \/ L56b(t) \/ L61(t) \/ Returned(t)

SpecConc == InitConc /\ [][NextConc]_vars

\* what thread t's call returns, and what attributes() then reports, when the
\* call runs alone on the field as constructed
Alone(t) ==
    Field_convert_field_entry(
        Field_init(self_.cls, self_.source, NoneV, NoneV, self_.creation_counter),
        loc[t].obj, loc[t].field_name, loc[t].parent)

\* C1: however the steps of the two calls interleave, each call returns the
\* value computed from its own object and field name, and the attributes()
\* reported for it are those of its own object and field
C1_NoCrossContamination ==
    \A t \in Threads :
        (pc # <<>> /\ pc[t] = "done") =>
            /\ loc[t].ret = Alone(t).ret
            /\ loc[t].meta = IF IsRaise(Alone(t).ret) THEN Unset
                             ELSE Self_attributes(Alone(t).self)

----------------------------------------------------------------------------
(* The pure-function specification of Field.convert *)

InitConvert ==
    /\ fields = <<>>
    /\ Field_creation_counter = 0
    /\ call = Unset
    /\ pc = <<>>
    /\ loc = <<>>
    /\ arg \in Values
    /\ ret = Unset
    /\ data = Unset
    /\ stream = Unset

Convert ==
    /\ arg # Unset
    /\ ret = Unset
    /\ ret' = Field_convert(arg)
    /\ UNCHANGED <<fields, Field_creation_counter, call, pc, loc, arg, data, stream>>

NextConvert == Convert

SpecConvert == InitConvert /\ [][NextConvert]_vars

\* a Value Tree: scalars, sequences and mappings only
RECURSIVE IsValueTree(_)
IsValueTree(v) ==
    CASE v.k \in {"none", "int", "str"} -> TRUE
      [] v.k = "list" -> \A i \in 1..Len(v.s) : IsValueTree(v.s[i])
      [] v.k = "dict" -> \A key \in DOMAIN v.m : IsValueTree(v.m[key])
      [] OTHER -> FALSE

\* C2: Field.convert returns a protected value unchanged; turns a mapping into
\* a mapping with the same key set whose value at each key is the conversion
\* of the original value (an empty mapping stays an empty mapping); turns a
\* list or tuple into a list of the same length and order whose i-th element
\* is the conversion of the i-th original element; and turns any other value
\* into its string form. The result is built of scalars, lists and dicts only.
C2_ConvertFlattens ==
    ret # Unset =>
        /\ is_protected_type(arg) => ret = arg
        /\ arg.k = "dict" =>
                /\ ret.k = "dict"
                /\ DOMAIN ret.m = DOMAIN arg.m
                /\ \A key \in DOMAIN arg.m : ret.m[key] = Field_convert(arg.m[key])
        /\ arg.k \in {"list", "tuple"} =>
                /\ ret.k = "list"
                /\ Len(ret.s) = Len(arg.s)
                /\ \A i \in 1..Len(arg.s) : ret.s[i] = Field_convert(arg.s[i])
        /\ arg.k = "str" => ret = arg
        /\ arg.k = "model" => ret = StrV("<" \o arg.id \o ">")
        /\ IsValueTree(ret)

\* a mapping holding a tuple holding an object was converted
C2_Witness ==
    /\ arg = DictV([key \in {"b"} |-> TupleV(<<ModelV("blog1")>>)])
    /\ ret = DictV([key \in {"b"} |-> ListV(<<StrV("<blog1>")>>)])

----------------------------------------------------------------------------
(* XMLRenderer: renderers.py *)

\* Python's ordering of the key strings
StrLess(x, y) == x = "a" /\ y = "b"

\* dict.items(): the (key, value) pairs in the dict's own iteration order,
\* which is the order the keys have in `order`
dict_items(m, order) ==
    LET present == {i \in 1..Len(order) : order[i] \in DOMAIN m}
        nth[j \in 1..Cardinality(present)] ==
            CHOOSE i \in present : Cardinality({h \in present : h < i}) = j - 1
    IN  [j \in 1..Cardinality(present) |-> <<order[nth[j]], m[order[nth[j]]]>>]

\* sorted(pairs): ascending by key, the keys of a dict being distinct
sorted(items) ==
    CHOOSE r \in [1..Len(items) -> Range(items)] :
        /\ Range(r) = Range(items)
        /\ \A i, j \in 1..Len(items) : i < j => StrLess(r[i][1], r[j][1])

\* what the generator writes: xml.sax.saxutils escape() of the text
XmlEscape(t) ==
    CASE t = "x<y" -> "x&lt;y"
      [] t = "<blog1>" -> "&lt;blog1&gt;"
      [] OTHER -> t

\* SimplerXMLGenerator: each call writes one chunk to the stream
startDocument == "<?xml version=\"1.0\" encoding=\"utf-8\"?>\n"
startElement(name) == "<" \o name \o ">"
endElement(name) == "</" \o name \o ">"
characters(content) == XmlEscape(content.t)

RECURSIVE XMLRenderer_to_xml(_, _)
RECURSIVE WriteItems(_, _), WritePairs(_, _)

\* the loop of lines 64-67 over the elements from the i-th on
WriteItems(s, order) ==
    IF s = <<>> THEN <<>>
    ELSE <<startElement("list-item")>> \o XMLRenderer_to_xml(Head(s), order)
            \o <<endElement("list-item")>> \o WriteItems(Tail(s), order)

\* the loop of lines 71-74 over the given (key, value) pairs
WritePairs(items, order) ==
    IF items = <<>> THEN <<>>
    ELSE <<startElement(Head(items)[1])>> \o XMLRenderer_to_xml(Head(items)[2], order)
            \o <<endElement(Head(items)[1])>> \o WritePairs(Tail(items), order)

\* _to_xml iterating data.items() as the dict yields them
XMLRenderer_to_xml_unsorted(obj, order) ==
    IF obj.k \in {"list", "tuple"} THEN WriteItems(obj.s, order)
    ELSE IF obj.k = "dict" THEN WritePairs(dict_items(obj.m, order), order)
    ELSE IF obj = NoneV THEN <<>>
    ELSE <<characters(smart_unicode(obj))>>

XMLRenderer_to_xml(obj, order) ==
    IF obj.k \in {"list", "tuple"} THEN WriteItems(obj.s, order)
    ELSE IF obj.k = "dict" THEN WritePairs(sorted(dict_items(obj.m, order)), order)
    ELSE IF obj = NoneV THEN <<>>
    ELSE <<characters(smart_unicode(obj))>>

\* the chunks render writes to the stream, in order
XMLRenderer_render(obj, order) ==
    <<startDocument, startElement("root")>> \o XMLRenderer_to_xml(obj, order)
        \o <<endElement("root")>>

\* stream.getvalue(): the chunks written, concatenated
RECURSIVE getvalue(_)
getvalue(chunks) ==
    IF chunks = <<>> THEN "" ELSE Head(chunks) \o getvalue(Tail(chunks))

\* the orders in which a dict may yield its keys
KeyOrders == {<<"a", "b">>, <<"b", "a">>}

InitRender ==
    /\ fields = <<>>
    /\ Field_creation_counter = 0
    /\ call = Unset
    /\ pc = <<>>
    /\ loc = <<>>
    /\ arg = Unset
    /\ ret = Unset
    /\ data \in [obj : Values, order : KeyOrders]
    /\ stream = Unset

Render ==
    /\ data # Unset
    /\ stream = Unset
    /\ stream' = XMLRenderer_render(data.obj, data.order)
    /\ UNCHANGED <<fields, Field_creation_counter, call, pc, loc, arg, ret, data>>

NextRender == Render

SpecRender == InitRender /\ [][NextRender]_vars

ElementNames == Keys \cup {"root", "list-item"}

\* every opened element is closed, innermost first
RECURSIVE WellNested(_, _)
WellNested(chunks, open) ==
    IF chunks = <<>> THEN open = <<>>
    ELSE IF \E n \in ElementNames : Head(chunks) = startElement(n)
        THEN WellNested(Tail(chunks), <<Head(chunks)>> \o open)
    ELSE IF \E n \in ElementNames : Head(chunks) = endElement(n)
        THEN /\ open # <<>>
             /\ \E n \in ElementNames :
                    Head(chunks) = endElement(n) /\ Head(open) = startElement(n)
             /\ WellNested(Tail(chunks), Tail(open))
    ELSE WellNested(Tail(chunks), open)

\* the start tags of the elements directly inside the outermost element
RECURSIVE ChildStarts(_, _)
ChildStarts(chunks, depth) ==
    IF chunks = <<>> THEN <<>>
    ELSE IF \E n \in ElementNames : Head(chunks) = startElement(n)
        THEN (IF depth = 1 THEN <<Head(chunks)>> ELSE <<>>)
                \o ChildStarts(Tail(chunks), depth + 1)
    ELSE IF \E n \in ElementNames : Head(chunks) = endElement(n)
        THEN ChildStarts(Tail(chunks), depth - 1)
    ELSE ChildStarts(Tail(chunks), depth)

CountChunk(chunks, c) == Cardinality({i \in DOMAIN chunks : chunks[i] = c})

RECURSIVE SumOver(_, _)
SumOver(f, D) ==
    IF D = {} THEN 0 ELSE LET x == CHOOSE x \in D : TRUE IN f[x] + SumOver(f, D \ {x})

\* the number of sequence elements, of entries under `key`, and of scalars
\* other than None, anywhere in a value
RECURSIVE SeqElements(_), KeyEntries(_, _), TextLeaves(_)
SeqElements(v) ==
    CASE v.k \in {"list", "tuple"} ->
            Len(v.s) + SumOver([i \in DOMAIN v.s |-> SeqElements(v.s[i])], DOMAIN v.s)
      [] v.k = "dict" -> SumOver([x \in DOMAIN v.m |-> SeqElements(v.m[x])], DOMAIN v.m)
      [] OTHER -> 0
KeyEntries(v, key) ==
    CASE v.k \in {"list", "tuple"} ->
            SumOver([i \in DOMAIN v.s |-> KeyEntries(v.s[i], key)], DOMAIN v.s)
      [] v.k = "dict" ->
            (IF key \in DOMAIN v.m THEN 1 ELSE 0)
                + SumOver([x \in DOMAIN v.m |-> KeyEntries(v.m[x], key)], DOMAIN v.m)
      [] OTHER -> 0
TextLeaves(v) ==
    CASE v.k \in {"list", "tuple"} ->
            SumOver([i \in DOMAIN v.s |-> TextLeaves(v.s[i])], DOMAIN v.s)
      [] v.k = "dict" -> SumOver([x \in DOMAIN v.m |-> TextLeaves(v.m[x])], DOMAIN v.m)
      [] v.k = "none" -> 0
      [] OTHER -> 1

IsTag(c) == \E n \in ElementNames : c \in {startElement(n), endElement(n)}

\* the keys of a key set in ascending order
AscendingKeys(D) == CHOOSE ks \in KeySeqs : Range(ks) = D

\* the mapping {"b": 1, "a": None}
ExampleMapping == DictV([key \in {"a", "b"} |-> IF key = "a" THEN NoneV ELSE IntV(1)])

\* what render emits for any value: one <root> element holding one element per
\* mapping entry, named after its key, in sorted key order whatever order the
\* dict yields its items in; one <list-item> per sequence element, in order;
\* nothing for None; the string form of any other scalar as text; every
\* element closed in properly nested order
RenderedShape ==
    LET obj == data.obj
        body == SubSeq(stream, 2, Len(stream))
    IN  /\ stream[2] = startElement("root")
        /\ stream[Len(stream)] = endElement("root")
        /\ CountChunk(stream, startElement("root")) = 1
        /\ WellNested(body, <<>>)
        /\ obj.k = "dict" =>
                ChildStarts(body, 0) =
                    [i \in 1..Cardinality(DOMAIN obj.m) |->
                        startElement(AscendingKeys(DOMAIN obj.m)[i])]
        /\ obj.k \in {"list", "tuple"} =>
                ChildStarts(body, 0) = [i \in 1..Len(obj.s) |-> startElement("list-item")]
        /\ obj = NoneV => body = <<startElement("root"), endElement("root")>>
        /\ obj.k \in {"int", "str", "model"} =>
                body = <<startElement("root"), XmlEscape(smart_unicode(obj).t),
                         endElement("root")>>
        /\ CountChunk(stream, startElement("list-item")) = SeqElements(obj)
        /\ \A key \in Keys : CountChunk(stream, startElement(key)) = KeyEntries(obj, key)
        /\ Cardinality({i \in 2..Len(stream) : ~IsTag(stream[i])}) = TextLeaves(obj)
        /\ \A i \in 1..(Len(stream) - 1) : \A x, y \in Keys :
                (stream[i] = endElement(x) /\ stream[i + 1] = startElement(y))
                    => StrLess(x, y)
        /\ stream = XMLRenderer_render(obj, <<"a", "b">>)

\* C9 as claimed: the rendering has the shape above and, for the mapping
\* {"b": 1, "a": None}, the output is exactly <root><a></a><b>1</b></root>
C9_AsClaimed ==
    stream # Unset =>
        /\ RenderedShape
        /\ data.obj = ExampleMapping
                => getvalue(stream) = "<root><a></a><b>1</b></root>"

\* C9 amended: the rendering has the shape above, preceded by the XML
\* declaration that startDocument writes; for the mapping {"b": 1, "a": None}
\* the output is the declaration followed by <root><a></a><b>1</b></root>
C9_RenderXml ==
    stream # Unset =>
        /\ RenderedShape
        /\ stream[1] = startDocument
        /\ data.obj = ExampleMapping
                => getvalue(stream) = startDocument \o "<root><a></a><b>1</b></root>"

\* the mapping {"b": 1, "a": None}, yielding "b" first, was rendered
C9_Witness ==
    /\ stream # Unset
    /\ data = [obj |-> ExampleMapping, order |-> <<"b", "a">>]
    /\ stream = <<startDocument, "<root>", "<a>", "</a>", "<b>", "1", "</b>", "</root>">>

====
